---- MODULE Spec2Model ----
(***************************************************************************)
(* Ripple v1.0 - API Impact Analyzer (src/main.py).                        *)
(*                                                                         *)
(* A Python str is modelled as a sequence of one-character strings, a list *)
(* as a sequence, a dict as a function.  Positions returned by Find are    *)
(* 0-based like str.find, -1 when absent; Slice(s, a, b) is s[a:b].        *)
(***************************************************************************)
EXTENDS Integers, Sequences, FiniteSets, TLC

(***************************************************************************)
(* Python str primitives                                                   *)
(***************************************************************************)
Min(a, b) == IF a < b THEN a ELSE b
Max(a, b) == IF a > b THEN a ELSE b

Range(s) == {s[i] : i \in DOMAIN s}

\* s[a:b] for 0 <= a, with b clipped to len(s)
Slice(s, a, b) == SubSeq(s, a + 1, Min(b, Len(s)))

\* s[a:]
SliceFrom(s, a) == SubSeq(s, a + 1, Len(s))

\* s.find(sub, start): lowest 0-based index >= start where sub occurs, else -1
Find(s, sub, start) ==
    LET hits == {i \in start .. (Len(s) - Len(sub)) :
                    SubSeq(s, i + 1, i + Len(sub)) = sub}
    IN  IF hits = {} THEN -1
        ELSE CHOOSE i \in hits : \A j \in hits : i <= j

\* sub in s
Contains(sub, s) == Find(s, sub, 0) # -1

\* s.startswith(prefix)
StartsWith(s, prefix) ==
    Len(prefix) <= Len(s) /\ SubSeq(s, 1, Len(prefix)) = prefix

\* s.count(c) for a one-character c
Count(s, c) == Cardinality({i \in DOMAIN s : s[i] = c})

\* the characters str.strip() / str.rstrip() remove
Whitespace == {" ", "\n", "\t"}

RStrip(s) ==
    LET keep == {i \in DOMAIN s : s[i] \notin Whitespace}
    IN  IF keep = {} THEN << >>
        ELSE SubSeq(s, 1, CHOOSE i \in keep : \A j \in keep : j <= i)

Strip(s) ==
    LET keep == {i \in DOMAIN s : s[i] \notin Whitespace}
    IN  IF keep = {} THEN << >>
        ELSE SubSeq(s, CHOOSE i \in keep : \A j \in keep : i <= j,
                       CHOOSE i \in keep : \A j \in keep : j <= i)

\* str.lower() on the letters the model's paths use
LowerChar(c) ==
    CASE c = "J" -> "j"
      [] c = "S" -> "s"
      [] c = "P" -> "p"
      [] c = "Y" -> "y"
      [] OTHER   -> c

Lower(s) == [i \in DOMAIN s |-> LowerChar(s[i])]

(***************************************************************************)
(* The one-character markers                                               *)
(***************************************************************************)
SQ == "'"
DQ == "\""
PY_EXT == <<".", "p", "y">>
HASH == <<"#">>
SLASHES == <<"/", "/">>
BLOCK_START == <<"/", "*">>
BLOCK_END == <<"*", "/">>
TRIPLE_DQ == <<DQ, DQ, DQ>>
TRIPLE_SQ == <<SQ, SQ, SQ>>

(***************************************************************************)
(* path_to_pattern: re.sub(r'/\{[^}]+\}', r'/', path)                      *)
(* Leftmost non-overlapping matches: '/', '{', one or more characters      *)
(* other than '}', then '}'.                                               *)
(***************************************************************************)
\* the substitution with a parameter name that may be empty: [^}]*
RECURSIVE PatternWithEmptyName(_)
PatternWithEmptyName(path) ==
    IF path = << >> THEN << >>
    ELSE LET close == Find(path, <<"}">>, 2)
         IN  IF /\ Len(path) >= 3
                /\ path[1] = "/"
                /\ path[2] = "{"
                /\ close # -1
             THEN <<"/">> \o PatternWithEmptyName(SliceFrom(path, close + 1))
             ELSE <<path[1]>> \o PatternWithEmptyName(Tail(path))

RECURSIVE path_to_pattern(_)
path_to_pattern(path) ==
    IF path = << >> THEN << >>
    ELSE LET close == Find(path, <<"}">>, 2)
         IN  IF /\ Len(path) >= 4
                /\ path[1] = "/"
                /\ path[2] = "{"
                /\ path[3] # "}"
                /\ close # -1
             THEN <<"/">> \o path_to_pattern(SliceFrom(path, close + 1))
             ELSE <<path[1]>> \o path_to_pattern(Tail(path))

get_comment_char(file_ext) == IF file_ext = PY_EXT THEN HASH ELSE SLASHES

\* the cut at the first marker whatever the quotes before it
RemoveCommentIgnoringQuotes(line, comment_char) ==
    LET comment_pos == Find(line, comment_char, 0)
    IN  IF comment_pos # -1
        THEN RStrip(Slice(line, 0, comment_pos))
        ELSE line

remove_inline_comment(line, comment_char) ==
    LET comment_pos == Find(line, comment_char, 0)
        before_comment == Slice(line, 0, comment_pos)
    IN  IF /\ comment_pos # -1
           /\ Count(before_comment, SQ) % 2 = 0
           /\ Count(before_comment, DQ) % 2 = 0
        THEN RStrip(before_comment)
        ELSE line

is_multiline_comment_start(line, file_ext) ==
    LET stripped == Strip(line)
    IN  IF file_ext = PY_EXT
        THEN StartsWith(stripped, TRIPLE_DQ) \/ StartsWith(stripped, TRIPLE_SQ)
        ELSE Contains(BLOCK_START, stripped)

is_multiline_comment_end(line, file_ext) ==
    LET stripped == Strip(line)
    IN  IF file_ext = PY_EXT
        THEN Contains(TRIPLE_DQ, stripped) \/ Contains(TRIPLE_SQ, stripped)
        ELSE Contains(BLOCK_END, stripped)

\* the body of the "for marker in [...]" loop of the .py branch, for the
\* first marker the stripped line starts with
PyBlockLine(stripped, marker) ==
    LET end_pos == Find(stripped, marker, 3)
    IN  IF end_pos # -1
        THEN [out |-> Strip(SliceFrom(stripped, end_pos + 3)), inside |-> FALSE]
        ELSE [out |-> << >>, inside |-> TRUE]

\* the non-.py branch with the end marker looked for in the whole line
CBlockLineAnyEnd(line) ==
    LET start == Find(line, BLOCK_START, 0)
        before == Slice(line, 0, start)
        end == Find(line, BLOCK_END, 0)
    IN  IF end # -1
        THEN [out |-> Strip(before \o SliceFrom(line, Max(end, start) + 2)),
              inside |-> FALSE]
        ELSE [out |-> Strip(before), inside |-> TRUE]

\* the non-.py branch: text before the first block start marker, and after the
\* first end marker that follows it
CBlockLine(line) ==
    LET start == Find(line, BLOCK_START, 0)
        before == Slice(line, 0, start)
        after_marker == SliceFrom(line, start + 2)
        end == Find(after_marker, BLOCK_END, 0)
    IN  IF end # -1
        THEN [out |-> Strip(before \o SliceFrom(after_marker, end + 2)),
              inside |-> FALSE]
        ELSE [out |-> Strip(before), inside |-> TRUE]

\* process_code_line handing on what follows the end marker of a block
ProcessKeepingTail(line, file_ext, in_multiline_comment) ==
    IF in_multiline_comment
    THEN IF is_multiline_comment_end(line, file_ext)
         THEN [out |-> Strip(SliceFrom(line,
                         Find(line, IF file_ext = PY_EXT
                                    THEN IF Contains(TRIPLE_DQ, line)
                                         THEN TRIPLE_DQ ELSE TRIPLE_SQ
                                    ELSE BLOCK_END, 0)
                         + (IF file_ext = PY_EXT THEN 3 ELSE 2))),
               inside |-> FALSE]
         ELSE [out |-> << >>, inside |-> TRUE]
    ELSE IF is_multiline_comment_start(line, file_ext)
         THEN IF file_ext = PY_EXT
              THEN IF StartsWith(Strip(line), TRIPLE_DQ)
                   THEN PyBlockLine(Strip(line), TRIPLE_DQ)
                   ELSE PyBlockLine(Strip(line), TRIPLE_SQ)
              ELSE CBlockLine(line)
         ELSE [out |-> remove_inline_comment(line, get_comment_char(file_ext)),
               inside |-> FALSE]

\* returns [out, inside]: the processed line and the new in_multiline_comment
process_code_line(line, file_ext, in_multiline_comment) ==
    IF in_multiline_comment
    THEN IF is_multiline_comment_end(line, file_ext)
         THEN [out |-> << >>, inside |-> FALSE]
         ELSE [out |-> << >>, inside |-> TRUE]
    ELSE IF is_multiline_comment_start(line, file_ext)
         THEN IF file_ext = PY_EXT
              THEN IF StartsWith(Strip(line), TRIPLE_DQ)
                   THEN PyBlockLine(Strip(line), TRIPLE_DQ)
                   ELSE PyBlockLine(Strip(line), TRIPLE_SQ)
              ELSE CBlockLine(line)
         ELSE [out |-> remove_inline_comment(line, get_comment_char(file_ext)),
               inside |-> FALSE]

\* the length of the code preview kept in a reference
PreviewLen == 100

\* the test without the pattern rule
LineMatchesLiteralOnly(api_path, processed_line) ==
    Contains(api_path, processed_line)

\* the test of one processed line against one endpoint
LineMatches(api_path, processed_line) ==
    \/ Contains(api_path, processed_line)
    \/ /\ Contains(<<"{">>, api_path)
       /\ Contains(path_to_pattern(api_path), processed_line)

\* the loop with the lines numbered from 0: enumerate(lines)
RECURSIVE FindFromZeroBased(_, _, _, _, _)
FindFromZeroBased(api_path, lines, file_ext, line_num, in_multiline_comment) ==
    IF line_num > Len(lines) THEN << >>
    ELSE LET raw_line == lines[line_num]
             p == process_code_line(raw_line, file_ext, in_multiline_comment)
             rest == FindFromZeroBased(api_path, lines, file_ext, line_num + 1,
                                       p.inside)
         IN  IF p.out # << >> /\ LineMatches(api_path, p.out)
             THEN <<[line |-> line_num - 1,
                     code |-> Slice(Strip(raw_line), 0, PreviewLen)]>> \o rest
             ELSE rest

\* the loop of find_api_references from line number line_num (1-based) on,
\* entered with the comment state in_multiline_comment
RECURSIVE FindFrom(_, _, _, _, _)
FindFrom(api_path, lines, file_ext, line_num, in_multiline_comment) ==
    IF line_num > Len(lines) THEN << >>
    ELSE LET raw_line == lines[line_num]
             p == process_code_line(raw_line, file_ext, in_multiline_comment)
             rest == FindFrom(api_path, lines, file_ext, line_num + 1, p.inside)
         IN  IF p.out # << >> /\ LineMatches(api_path, p.out)
             THEN <<[line |-> line_num,
                     code |-> Slice(Strip(raw_line), 0, PreviewLen)]>> \o rest
             ELSE rest

\* one reference, as lines 144-147 build it
Reference(line_num, raw_line) ==
    [line |-> line_num, code |-> Slice(Strip(raw_line), 0, PreviewLen)]

\* the iteration with the endpoint looked for in the raw line
LineStepRaw(api_path, raw_line, file_ext, line_num, in_multiline_comment) ==
    LET p == process_code_line(raw_line, file_ext, in_multiline_comment)
    IN  [out |-> p.out,
         inside |-> p.inside,
         refs |-> IF p.out # << >> /\ LineMatches(api_path, raw_line)
                  THEN <<Reference(line_num, raw_line)>> ELSE << >>]

\* the iteration with one append per rule that matches
LineStepBothRules(api_path, raw_line, file_ext, line_num, in_multiline_comment) ==
    LET p == process_code_line(raw_line, file_ext, in_multiline_comment)
    IN  [out |-> p.out,
         inside |-> p.inside,
         refs |-> (IF p.out # << >> /\ Contains(api_path, p.out)
                   THEN <<Reference(line_num, raw_line)>> ELSE << >>)
                  \o (IF /\ p.out # << >>
                         /\ Contains(<<"{">>, api_path)
                         /\ Contains(path_to_pattern(api_path), p.out)
                      THEN <<Reference(line_num, raw_line)>> ELSE << >>)]

\* one iteration of the loop of find_api_references, lines 127-147: the
\* processed line, the new comment state, the references appended
LineStep(api_path, raw_line, file_ext, line_num, in_multiline_comment) ==
    LET p == process_code_line(raw_line, file_ext, in_multiline_comment)
    IN  [out |-> p.out,
         inside |-> p.inside,
         refs |-> IF p.out # << >> /\ LineMatches(api_path, p.out)
                  THEN <<Reference(line_num, raw_line)>> ELSE << >>]

Reverse(s) == [i \in DOMAIN s |-> s[Len(s) + 1 - i]]

\* find_api_references with each reference inserted at the front
FindReferencesReversed(api_path, lines, file_ext) ==
    Reverse(FindFrom(api_path, lines, file_ext, 1, FALSE))

find_api_references(api_path, lines, file_ext) ==
    FindFrom(api_path, lines, file_ext, 1, FALSE)

(***************************************************************************)
(* Paths (os.path, pathlib)                                                *)
(***************************************************************************)
SEP == "/"

\* the components of a path after the root: "/r/a.js" -> <<"r", "a.js">>
RECURSIVE SplitSep(_)
SplitSep(s) ==
    LET cut == Find(s, <<SEP>>, 0)
    IN  IF cut = -1 THEN IF s = << >> THEN << >> ELSE <<s>>
        ELSE IF cut = 0 THEN SplitSep(Tail(s))
        ELSE <<Slice(s, 0, cut)>> \o SplitSep(SliceFrom(s, cut + 1))

\* Path.parts of an absolute path: the root, then every component
Parts(path) == <<(<<SEP>>)>> \o SplitSep(path)

\* Path.name
Name(path) == Parts(path)[Len(Parts(path))]

\* Path.suffix and os.path.splitext(...)[1]: from the last dot of the name,
\* a leading dot not counting
Suffix(path) ==
    LET name == Name(path)
        dots == {i \in DOMAIN name : name[i] = "."}
        last == CHOOSE i \in dots : \A j \in dots : j <= i
    IN  IF dots = {} \/ last = 1 THEN << >> ELSE SubSeq(name, last, Len(name))

\* os.path.relpath(file_path, base_dir) for a file below base_dir
RelPath(file_path, base_dir) ==
    IF StartsWith(file_path, base_dir \o <<SEP>>)
    THEN SliceFrom(file_path, Len(base_dir) + 1)
    ELSE file_path

(***************************************************************************)
(* DEFAULT_CONFIG.  A configuration value is tagged with its JSON kind;    *)
(* "val" is meaningful for kind "list" (a list of strings) and "int".      *)
(***************************************************************************)
ListVal(l) == [kind |-> "list", val |-> l]
IntVal(n) == [kind |-> "int", val |-> n]
\* a JSON value of the wrong type for the knob: a number where a list is
\* expected, a string where a number is expected
WrongType == [kind |-> "wrong", val |-> 0]
\* a member the JSON object does not have
Absent == [kind |-> "absent", val |-> 0]

EXT_JS == <<".", "j", "s">>
EXT_TS == <<".", "t", "s">>
EXT_PY == <<".", "p", "y">>
EXT_GO == <<".", "g", "o">>
EXT_JAVA == <<".", "j", "a", "v", "a">>
EXT_PHP == <<".", "p", "h", "p">>

DEFAULT_EXTENSIONS == <<EXT_JS, EXT_TS, EXT_PY, EXT_GO, EXT_JAVA, EXT_PHP>>

\* the entries of the default skip list the model's trees can meet
DEFAULT_SKIP_DIRS ==
    <<<<".", "g", "i", "t">>, <<"v", "e", "n", "v">>, <<"e", "n", "v">>,
      <<"d", "i", "s", "t">>, <<"b", "i", "n">>, <<"o", "b", "j">>>>

DEFAULT_MAX_WORKERS == 4

KNOBS == {"extensions", "skip_dirs", "max_workers"}

DEFAULT_CONFIG ==
    [extensions  |-> ListVal(DEFAULT_EXTENSIONS),
     skip_dirs   |-> ListVal(DEFAULT_SKIP_DIRS),
     max_workers |-> IntVal(DEFAULT_MAX_WORKERS)]

\* load_config on a configuration file in state file ("absent": no such
\* file; "broken": not JSON, or JSON that is no object; "ok": an object
\* with the members json_obj).  Returns the dict and whether the warning
\* of line 49 is printed.
load_config(file, json_obj) ==
    IF file = "ok"
    THEN [config |-> [key \in KNOBS |->
                        IF json_obj[key].kind = "absent"
                        THEN DEFAULT_CONFIG[key] ELSE json_obj[key]],
          warned |-> FALSE]
    ELSE [config |-> DEFAULT_CONFIG, warned |-> file = "broken"]

(***************************************************************************)
(* The source tree                                                         *)
(***************************************************************************)
ROOT == <<"/", "r">>

FILE_A == <<"/", "r", "/", "a", ".", "j", "s">>
FILE_B == <<"/", "r", "/", "b", ".", "p", "y">>
FILE_C == <<"/", "r", "/", "c", ".", "J", "S">>
FILE_D == <<"/", "r", "/", "b", "i", "n", "/", "d", ".", "j", "s">>

AllFiles == {FILE_A, FILE_B, FILE_C, FILE_D}

\* what f.readlines() returns for each file when it decodes
FileLines(path) ==
    CASE path = FILE_A ->
           << <<"f", "(", SQ, "/", "u", SQ, ")", "\n">>,
              <<"/", "/", " ", "/", "u", "\n">>,
              <<"g", "(", SQ, "/", "o", "/", "1", SQ, ")", " ", "/", "u", "\n">> >>
      [] path = FILE_B ->
           << <<"#", " ", "/", "o", "/", "1", "\n">>,
              <<"h", "(", SQ, "/", "u", SQ, ")", "\n">> >>
      [] path = FILE_C ->
           << <<"/", "*", " ", "/", "u", "\n">>,
              <<"/", "u", " ", "*", "/", "\n">>,
              <<"q", "(", SQ, "/", "o", "/", "{", "i", "}", SQ, ")">> >>
      [] OTHER ->
           << <<"f", "(", SQ, "/", "u", SQ, ")", "\n">> >>

\* the endpoint paths of the API specifications
EP_U == <<"/", "u">>
EP_O == <<"/", "o", "/", "{", "i", "}">>

\* the endpoint lists a specification document can declare, in its order
ApiChoices == {<< >>, <<EP_U, EP_O>>, <<EP_O, EP_U>>}

\* the largest number of files in a tree
MaxFiles == 3

Trees == {t \in SUBSET AllFiles : Cardinality(t) <= MaxFiles}

\* the contents of ripple.json
EmptyObject == [key \in KNOBS |-> Absent]

JsonObjects ==
    {[EmptyObject EXCEPT !.max_workers = IntVal(1)],
     [EmptyObject EXCEPT !.max_workers = IntVal(2)],
     [EmptyObject EXCEPT !.max_workers = IntVal(8)],
     [EmptyObject EXCEPT !.max_workers = IntVal(0)],
     [EmptyObject EXCEPT !.max_workers = WrongType],
     [EmptyObject EXCEPT
        !.extensions = ListVal(<<<<".", "J", "S">>>>)],
     [EmptyObject EXCEPT !.extensions = WrongType],
     [EmptyObject EXCEPT !.skip_dirs = ListVal(<< >>)],
     [EmptyObject EXCEPT !.skip_dirs = WrongType]}

UserConfigs ==
    {[file |-> "absent", json |-> EmptyObject],
     [file |-> "broken", json |-> EmptyObject]}
    \cup {[file |-> "ok", json |-> j] : j \in JsonObjects}

\* every order in which rglob can yield the files of S
Perms(S) == {s \in [1 .. Cardinality(S) -> S] : Range(s) = S}

(***************************************************************************)
(* scan_code_files                                                         *)
(***************************************************************************)
should_skip_directory(dir_name, skip_dirs) == dir_name \in Range(skip_dirs)

\* the test with the suffix of the file compared as it is spelled
IsCandidateCaseSensitive(path, config) ==
    /\ ~ \E part \in Range(Parts(path)) :
            should_skip_directory(part, config.skip_dirs.val)
    /\ Suffix(path) \in {Lower(ext) : ext \in Range(config.extensions.val)}

\* the test of lines 166-169 on one file of the tree
IsCandidate(path, config) ==
    /\ ~ \E part \in Range(Parts(path)) :
            should_skip_directory(part, config.skip_dirs.val)
    /\ Lower(Suffix(path)) \in {Lower(ext) : ext \in Range(config.extensions.val)}

\* the set of paths scan_code_files collects; its list is one of Perms(..)
scan_code_files(files, config) == {path \in files : IsCandidate(path, config)}

(***************************************************************************)
(* analyze_single_file                                                     *)
(***************************************************************************)
\* the inner loop of lines 186-187: the references of one endpoint, tagged
Tagged(api_path, rel_path, references) ==
    [i \in DOMAIN references |->
        [api |-> api_path,
         loc |-> [file |-> rel_path,
                  line |-> references[i].line,
                  code |-> references[i].code]]]

\* in_multiline_comment after the lines from line_num on
RECURSIVE EndState(_, _, _, _)
EndState(lines, file_ext, line_num, in_multiline_comment) ==
    IF line_num > Len(lines) THEN in_multiline_comment
    ELSE EndState(lines, file_ext, line_num + 1,
                  process_code_line(lines[line_num], file_ext,
                                    in_multiline_comment).inside)

\* the loop over the endpoints with one comment state for all the passes:
\* each pass begins in the state the pass before ended in
RECURSIVE ResultsCarry(_, _, _, _, _, _)
ResultsCarry(api_paths, k, lines, file_ext, rel_path, inside) ==
    IF k > Len(api_paths) THEN << >>
    ELSE Tagged(api_paths[k], rel_path,
                FindFrom(api_paths[k], lines, file_ext, 1, inside))
         \o ResultsCarry(api_paths, k + 1, lines, file_ext, rel_path,
                         EndState(lines, file_ext, 1, inside))

ResultsCarryingState(api_paths, k, lines, file_ext, rel_path) ==
    ResultsCarry(api_paths, k, lines, file_ext, rel_path, FALSE)

\* the loop of lines 184-187 from the k-th endpoint on
RECURSIVE ResultsFrom(_, _, _, _, _)
ResultsFrom(api_paths, k, lines, file_ext, rel_path) ==
    IF k > Len(api_paths) THEN << >>
    ELSE Tagged(api_paths[k], rel_path,
                find_api_references(api_paths[k], lines, file_ext))
         \o ResultsFrom(api_paths, k + 1, lines, file_ext, rel_path)

\* analyze_single_file reading with errors ignored: a file that does not
\* decode is scanned all the same
AnalyzeIgnoringErrors(file_path, api_paths, base_dir, decodes) ==
    [raised |-> FALSE,
     rel_path |-> RelPath(file_path, base_dir),
     results |-> ResultsFrom(api_paths, 1, FileLines(file_path),
                             Lower(Suffix(file_path)),
                             RelPath(file_path, base_dir))]

\* decodes: whether open() and readlines() succeed on the file.  Every
\* Exception is caught (line 190), so the call never raises.
analyze_single_file(file_path, api_paths, base_dir, decodes) ==
    IF decodes
    THEN [raised |-> FALSE,
          rel_path |-> RelPath(file_path, base_dir),
          results |-> ResultsFrom(api_paths, 1, FileLines(file_path),
                                  Lower(Suffix(file_path)),
                                  RelPath(file_path, base_dir))]
    ELSE [raised |-> FALSE,
          rel_path |-> RelPath(file_path, base_dir),
          results |-> << >>]

(***************************************************************************)
(* analyze_api_usage_parallel: the pieces run by the coordinator           *)
(***************************************************************************)
\* line 196
NewLocations(api_paths) == [path \in Range(api_paths) |-> << >>]

\* the merge with the map keyed by the endpoint's pattern, not its path
RECURSIVE MergeResultsByPattern(_, _)
MergeResultsByPattern(locations, results) ==
    IF results = << >> THEN locations
    ELSE LET key == path_to_pattern(results[1].api)
         IN  MergeResultsByPattern(
                [path \in DOMAIN locations \cup {key} |->
                    IF path = key
                    THEN IF key \in DOMAIN locations
                         THEN Append(locations[key], results[1].loc)
                         ELSE <<results[1].loc>>
                    ELSE locations[path]],
                Tail(results))

\* the merge with an update lost: the list is replaced, not appended to
RECURSIVE MergeResultsOverwrite(_, _)
MergeResultsOverwrite(locations, results) ==
    IF results = << >> THEN locations
    ELSE MergeResultsOverwrite(
            [locations EXCEPT ![results[1].api] = <<results[1].loc>>],
            Tail(results))

\* lines 208-209
RECURSIVE MergeResults(_, _)
MergeResults(locations, results) ==
    IF results = << >> THEN locations
    ELSE MergeResults(
            [locations EXCEPT ![results[1].api] = Append(@, results[1].loc)],
            Tail(results))

\* ThreadPoolExecutor.__init__ accepts max_workers
PoolAccepts(max_workers) == max_workers.kind = "int" /\ max_workers.val > 0

(***************************************************************************)
(* State                                                                   *)
(***************************************************************************)
VARIABLES
    pc,             \* the position of main()
    exit_code,      \* the process exit status, -1 while it runs
    stdout,         \* the messages printed so far
    artifacts,      \* the report files written so far
    report,         \* what print_terminal_report showed
    user_config,    \* ripple.json as load_config found it
    config,         \* the dict load_config returned
    spec_state,     \* the specification document as main found it
    dir_state,      \* the scan root as main found it
    fail_on_unused, \* --fail-on-unused, once consulted
    output_json,    \* --output-json, once consulted
    api_paths,      \* load_api_paths' list
    tree,           \* the files under the scan root
    unreadable,     \* the files that fail to open or decode
    code_files,     \* scan_code_files' list
    api_locations,  \* the result map of analyze_api_usage_parallel
    fut,            \* future_to_file: each submitted file's future
    queue,          \* the executor's work queue
    yielded,        \* the futures as_completed has yielded
    first_scan,     \* the result of an earlier scan of the same tree
    ref_ext,        \* find_api_references: file_ext
    ref_api,        \* find_api_references: api_path
    ref_num,        \* find_api_references: line_num, 0 before the loop
    ref_before,     \* in_multiline_comment when the last line was read
    ref_inside,     \* in_multiline_comment now
    ref_raw,        \* the last raw_line
    ref_out,        \* the last processed_line
    ref_list,       \* find_api_references: references
    ref_prev_end,   \* in_multiline_comment at the end of the call before
    pp_path,        \* path_to_pattern: path
    pp_pattern,     \* path_to_pattern: the value returned, once it has
    af_file,        \* analyze_single_file: file_path
    af_lines,       \* analyze_single_file: lines, as readlines() gave them
    af_paths,       \* analyze_single_file: api_paths
    af_result       \* analyze_single_file: the value returned, once it has

lineVars == <<ref_ext, ref_api, ref_num, ref_before, ref_inside, ref_raw,
              ref_out, ref_list, ref_prev_end>>
patVars == <<pp_path, pp_pattern>>
fileVars == <<af_file, af_lines, af_paths, af_result>>

vars == <<pc, exit_code, stdout, artifacts, report, user_config, config,
          spec_state, dir_state, fail_on_unused, output_json, api_paths, tree,
          unreadable, code_files, api_locations, fut, queue, yielded,
          first_scan, lineVars, patVars, fileVars>>

mainVars == <<pc, exit_code, stdout, artifacts, report, user_config, config,
              spec_state, dir_state, fail_on_unused, output_json, api_paths,
              tree, unreadable, code_files, api_locations, fut, queue,
              yielded, first_scan>>

envVars == <<user_config, spec_state, dir_state, tree, unreadable>>
argVars == <<fail_on_unused, output_json>>
scanVars == <<api_locations, fut, queue, yielded>>
outVars == <<stdout, artifacts, report>>

\* a file without a future, and a future still without an outcome
NoOutcome == [raised |-> FALSE, rel_path |-> << >>, results |-> << >>]
NoFuture == [state |-> "none", outcome |-> NoOutcome]

Msg(tag) == [tag |-> tag, file |-> << >>]
FileMsg(tag, file) == [tag |-> tag, file |-> file]

\* main() is entered
MainInit ==
    /\ pc = "load_config"
    /\ exit_code = -1
    /\ stdout = {}
    /\ artifacts = {}
    /\ report = [shown |-> FALSE, rows |-> << >>]
    /\ user_config = [file |-> "unread", json |-> EmptyObject]
    /\ config = DEFAULT_CONFIG
    /\ spec_state = "unread"
    /\ dir_state = "unread"
    /\ fail_on_unused = "unread"
    /\ output_json = "unread"
    /\ api_paths = << >>
    /\ tree = {}
    /\ unreadable = {}
    /\ code_files = << >>
    /\ api_locations = << >>
    /\ fut = [f \in AllFiles |-> NoFuture]
    /\ queue = << >>
    /\ yielded = {}
    /\ first_scan = [done |-> FALSE, content |-> << >>]

\* find_api_references is not running
LinesIdle ==
    /\ ref_ext = << >>
    /\ ref_api = << >>
    /\ ref_num = 0
    /\ ref_before = FALSE
    /\ ref_inside = FALSE
    /\ ref_raw = << >>
    /\ ref_out = << >>
    /\ ref_list = << >>
    /\ ref_prev_end = FALSE

\* path_to_pattern is not running
PatternIdle ==
    /\ pp_path = << >>
    /\ pp_pattern = [done |-> FALSE, val |-> << >>]

\* analyze_single_file is not running
FileIdle ==
    /\ af_file = << >>
    /\ af_lines = << >>
    /\ af_paths = << >>
    /\ af_result = [done |-> FALSE, val |-> << >>]

Init == MainInit /\ LinesIdle /\ PatternIdle /\ FileIdle

(***************************************************************************)
(* main(), up to the scan                                                  *)
(***************************************************************************)
\* sys.exit(code) after printing msg
Exit(code, msg) ==
    /\ pc' = "exited"
    /\ exit_code' = code
    /\ stdout' = stdout \cup {msg}

\* an exception nothing catches: traceback, exit status 1
Crash ==
    /\ pc' = "crashed"
    /\ exit_code' = 1

\* line 729
LoadConfig ==
    /\ pc = "load_config"
    /\ \E uc \in UserConfigs :
         LET loaded == load_config(uc.file, uc.json)
         IN  /\ user_config' = uc
             /\ config' = loaded.config
             /\ stdout' = IF loaded.warned
                          THEN stdout \cup {Msg("warn_config")} ELSE stdout
    /\ pc' = "check_spec"
    /\ UNCHANGED <<exit_code, artifacts, report, spec_state, dir_state,
                   argVars, api_paths, tree, unreadable, code_files,
                   scanVars, first_scan, lineVars, patVars, fileVars>>

\* lines 735-737
CheckSpec ==
    /\ pc = "check_spec"
    /\ \E exists \in BOOLEAN :
         IF exists
         THEN /\ spec_state' = "exists"
              /\ pc' = "check_dir"
              /\ UNCHANGED <<exit_code, stdout>>
         ELSE /\ spec_state' = "missing"
              /\ Exit(1, Msg("err_spec_missing"))
    /\ UNCHANGED <<artifacts, report, user_config, config, dir_state, argVars,
                   api_paths, tree, unreadable, code_files, scanVars,
                   first_scan, lineVars, patVars, fileVars>>

\* lines 739-741
CheckDir ==
    /\ pc = "check_dir"
    /\ \E found \in {"missing", "notdir", "ok"} :
         /\ dir_state' = found
         /\ IF found = "ok"
            THEN pc' = "load_spec" /\ UNCHANGED <<exit_code, stdout>>
            ELSE Exit(1, Msg("err_dir"))
    /\ UNCHANGED <<artifacts, report, user_config, config, spec_state, argVars,
                   api_paths, tree, unreadable, code_files, scanVars,
                   first_scan, lineVars, patVars, fileVars>>

\* main with the parse failure swallowed: the run goes on with no endpoint
LoadSpecLenient ==
    /\ pc = "load_spec"
    /\ \/ /\ spec_state' = "unparsable"
          /\ api_paths' = << >>
       \/ \E paths \in ApiChoices :
            /\ spec_state' = "ok"
            /\ api_paths' = paths
    /\ pc' = "scan_files"
    /\ UNCHANGED <<exit_code, outVars, user_config, config, dir_state, argVars,
                   tree, unreadable, code_files, scanVars, first_scan,
                   lineVars, patVars, fileVars>>

\* lines 749-754: load_api_paths raises when the document is no YAML, or
\* has no mapping under 'paths'
LoadSpec ==
    /\ pc = "load_spec"
    /\ \/ /\ spec_state' = "unparsable"
          /\ Exit(1, Msg("err_yaml"))
          /\ UNCHANGED api_paths
       \/ \E paths \in ApiChoices :
            /\ spec_state' = "ok"
            /\ api_paths' = paths
            /\ pc' = "scan_files"
            /\ UNCHANGED <<exit_code, stdout>>
    /\ UNCHANGED <<artifacts, report, user_config, config, dir_state, argVars,
                   tree, unreadable, code_files, scanVars, first_scan,
                   lineVars, patVars, fileVars>>

\* lines 756-758: the announcement is printed, then
\* ', '.join(config['extensions']) raises on a value that is no list of
\* strings; should_skip_directory raises on the first file when skip_dirs is
\* no container
ScanFiles ==
    /\ pc = "scan_files"
    /\ stdout' = stdout \cup {Msg("scanning")}
    /\ IF config.extensions.kind # "list"
       THEN Crash /\ UNCHANGED <<tree, unreadable, code_files>>
       ELSE \E t \in Trees :
              /\ tree' = t
              /\ IF config.skip_dirs.kind # "list"
                 THEN /\ IF t # {} THEN Crash
                                   ELSE pc' = "check_files" /\ UNCHANGED exit_code
                      /\ UNCHANGED <<unreadable, code_files>>
                 ELSE /\ \E bad \in SUBSET scan_code_files(t, config) :
                            unreadable' = bad
                      /\ code_files' \in Perms(scan_code_files(t, config))
                      /\ pc' = "check_files"
                      /\ UNCHANGED exit_code
    /\ UNCHANGED <<artifacts, report, user_config, config, spec_state,
                   dir_state, argVars, api_paths, scanVars, first_scan,
                   lineVars, patVars, fileVars>>

\* lines 761-763.  The exit is taken whatever --fail-on-unused is, so the
\* flag of the command line is recorded with it.
CheckFiles ==
    /\ pc = "check_files"
    /\ IF code_files = << >>
       THEN /\ Exit(0, Msg("warn_no_files"))
            /\ fail_on_unused' \in {"yes", "no"}
       ELSE /\ pc' = "analyze"
            /\ UNCHANGED <<exit_code, stdout, fail_on_unused>>
    /\ UNCHANGED <<artifacts, report, envVars, config, output_json, api_paths,
                   code_files, scanVars, first_scan, lineVars, patVars, fileVars>>

(***************************************************************************)
(* analyze_api_usage_parallel                                              *)
(***************************************************************************)
Submitted == {f \in AllFiles : fut[f].state # "none"}
Running == {f \in AllFiles : fut[f].state = "running"}

\* lines 196-198: the result map, then the executor, whose constructor
\* raises ValueError / TypeError on a max_workers it does not accept
AnalyzeStart ==
    /\ pc = "analyze"
    /\ api_locations' = NewLocations(api_paths)
    /\ IF PoolAccepts(config.max_workers)
       THEN pc' = "submit" /\ UNCHANGED exit_code
       ELSE Crash
    /\ UNCHANGED <<outVars, envVars, config, argVars, api_paths, code_files,
                   fut, queue, yielded, first_scan, lineVars, patVars, fileVars>>

\* lines 199-202: one executor.submit, in the order of code_files
Submit ==
    /\ pc = "submit"
    /\ LET file_path == code_files[Cardinality(Submitted) + 1]
       IN  /\ fut' = [fut EXCEPT ![file_path] =
                        [state |-> "pending", outcome |-> NoOutcome]]
           /\ queue' = Append(queue, file_path)
    /\ pc' = IF Cardinality(Submitted) + 1 = Len(code_files)
             THEN "collect" ELSE "submit"
    /\ UNCHANGED <<exit_code, outVars, envVars, config, argVars, api_paths,
                   code_files, api_locations, yielded, first_scan,
                   lineVars, patVars, fileVars>>

\* a pool thread takes the oldest queued work item; the pool has at most
\* max_workers threads
StartWorker ==
    /\ pc \in {"submit", "collect"}
    /\ queue # << >>
    /\ Cardinality(Running) < config.max_workers.val
    /\ fut' = [fut EXCEPT ![Head(queue)].state = "running"]
    /\ queue' = Tail(queue)
    /\ UNCHANGED <<pc, exit_code, outVars, envVars, config, argVars, api_paths,
                   code_files, api_locations, yielded, first_scan,
                   lineVars, patVars, fileVars>>

\* a pool thread runs analyze_single_file to its end and sets the future
FinishWorker(file_path) ==
    /\ pc \in {"submit", "collect"}
    /\ fut[file_path].state = "running"
    /\ fut' = [fut EXCEPT ![file_path] =
                 [state |-> "finished",
                  outcome |-> analyze_single_file(file_path, api_paths, ROOT,
                                                  file_path \notin unreadable)]]
    /\ UNCHANGED <<pc, exit_code, outVars, envVars, config, argVars, api_paths,
                   code_files, api_locations, queue, yielded, first_scan,
                   lineVars, patVars, fileVars>>

\* lines 204-211: one iteration of the as_completed loop, on a finished
\* future it has not yielded yet
Merge(file_path) ==
    /\ pc = "collect"
    /\ fut[file_path].state = "finished"
    /\ file_path \notin yielded
    /\ yielded' = yielded \cup {file_path}
    /\ IF fut[file_path].outcome.raised
       THEN /\ stdout' = stdout \cup {FileMsg("warn_file", file_path)}
            /\ UNCHANGED api_locations
       ELSE /\ api_locations' =
                 MergeResults(api_locations, fut[file_path].outcome.results)
            /\ UNCHANGED stdout
    /\ UNCHANGED <<pc, exit_code, artifacts, report, envVars, config, argVars,
                   api_paths, code_files, fut, queue, first_scan,
                   lineVars, patVars, fileVars>>

\* the return placed inside the loop: the map is returned after the first
\* completed future
AnalyzeReturnEarly ==
    /\ pc = "collect"
    /\ yielded # {}
    /\ pc' = "report"
    /\ UNCHANGED <<exit_code, outVars, envVars, config, argVars, api_paths,
                   code_files, scanVars, first_scan, lineVars, patVars, fileVars>>

\* lines 204, 212-213: as_completed is exhausted, the executor shuts down,
\* the map is returned
AnalyzeReturn ==
    /\ pc = "collect"
    /\ yielded = Range(code_files)
    /\ pc' = "report"
    /\ UNCHANGED <<exit_code, outVars, envVars, config, argVars, api_paths,
                   code_files, scanVars, first_scan, lineVars, patVars, fileVars>>

(***************************************************************************)
(* main(), after the scan                                                  *)
(***************************************************************************)
\* line 772: one row per endpoint, with len(api_locations.get(api_path, []))
TerminalReport ==
    /\ pc = "report"
    /\ report' = [shown |-> TRUE,
                  rows |-> [i \in DOMAIN api_paths |->
                              [api |-> api_paths[i],
                               count |-> IF api_paths[i] \in DOMAIN api_locations
                                         THEN Len(api_locations[api_paths[i]])
                                         ELSE 0]]]
    /\ pc' = "html"
    /\ UNCHANGED <<exit_code, stdout, artifacts, envVars, config, argVars,
                   api_paths, code_files, scanVars, first_scan,
                   lineVars, patVars, fileVars>>

\* lines 774-779: the write can fail, which is printed and survived
HtmlReport ==
    /\ pc = "html"
    /\ \E written \in BOOLEAN :
         IF written
         THEN artifacts' = artifacts \cup {"html"} /\ UNCHANGED stdout
         ELSE stdout' = stdout \cup {Msg("err_html")} /\ UNCHANGED artifacts
    /\ pc' = "json"
    /\ UNCHANGED <<exit_code, report, envVars, config, argVars, api_paths,
                   code_files, scanVars, first_scan, lineVars, patVars, fileVars>>

\* lines 781-787
JsonReport ==
    /\ pc = "json"
    /\ \E wanted \in BOOLEAN, written \in BOOLEAN :
         /\ output_json' = IF wanted THEN "yes" ELSE "no"
         /\ IF wanted /\ written
            THEN artifacts' = artifacts \cup {"json"} /\ UNCHANGED stdout
            ELSE IF wanted
                 THEN stdout' = stdout \cup {Msg("err_json")}
                      /\ UNCHANGED artifacts
                 ELSE UNCHANGED <<stdout, artifacts>>
    /\ pc' = "exit_check"
    /\ UNCHANGED <<exit_code, report, envVars, config, fail_on_unused,
                   api_paths, code_files, scanVars, first_scan,
                   lineVars, patVars, fileVars>>

\* line 789
unreferenced_count ==
    Cardinality({path \in DOMAIN api_locations : api_locations[path] = << >>})

\* lines 789-794
ExitCheck ==
    /\ pc = "exit_check"
    /\ \E flag \in BOOLEAN :
         /\ fail_on_unused' = IF flag THEN "yes" ELSE "no"
         /\ IF flag /\ unreferenced_count > 0
            THEN Exit(1, Msg("ci_failed"))
            ELSE Exit(0, Msg("done"))
    /\ UNCHANGED <<artifacts, report, envVars, config, output_json, api_paths,
                   code_files, scanVars, first_scan, lineVars, patVars, fileVars>>

Next ==
    \/ LoadConfig
    \/ CheckSpec
    \/ CheckDir
    \/ LoadSpec
    \/ ScanFiles
    \/ CheckFiles
    \/ AnalyzeStart
    \/ Submit
    \/ StartWorker
    \/ \E file_path \in AllFiles : FinishWorker(file_path)
    \/ \E file_path \in AllFiles : Merge(file_path)
    \/ AnalyzeReturn
    \/ TerminalReport
    \/ HtmlReport
    \/ JsonReport
    \/ ExitCheck

Spec == Init /\ [][Next]_vars

(***************************************************************************)
(* The run with its threads scheduled                                      *)
(***************************************************************************)
\* the steps of the main thread
MainSteps ==
    \/ LoadConfig
    \/ CheckSpec
    \/ CheckDir
    \/ LoadSpec
    \/ ScanFiles
    \/ CheckFiles
    \/ AnalyzeStart
    \/ Submit
    \/ \E file_path \in AllFiles : Merge(file_path)
    \/ AnalyzeReturn
    \/ TerminalReport
    \/ HtmlReport
    \/ JsonReport
    \/ ExitCheck

\* every file read terminates: no call of analyze_single_file runs for ever
ReadsTerminate == \A f \in AllFiles : []<>(fut[f].state # "running")

\* the main thread runs while it is not blocked, an idle pool thread takes
\* queued work, and every file read terminates
SpecLive ==
    /\ Init /\ [][Next]_vars
    /\ WF_vars(MainSteps)
    /\ WF_vars(StartWorker)
    /\ ReadsTerminate

(***************************************************************************)
(* The same tree scanned again                                             *)
(***************************************************************************)
\* the pool sizes of the repeated scans
PoolSizes == {1, 2, 8}

\* counts[x] = the number of times x occurs in s
BagOfSeq(s) == [x \in Range(s) |-> Cardinality({i \in DOMAIN s : s[i] = x})]

\* the content of a result map: per endpoint, the multiset of its references
Content(locations) ==
    [path \in DOMAIN locations |-> BagOfSeq(locations[path])]

\* A second run of the program over the same specification document and
\* the same unchanged tree (so with the same endpoint list and file list),
\* with max_workers of ripple.json set to any of the pool sizes; taken up
\* where the second run calls analyze_api_usage_parallel.
Rescan ==
    /\ pc = "report"
    /\ ~ first_scan.done
    /\ first_scan' = [done |-> TRUE, content |-> Content(api_locations)]
    /\ \E n \in PoolSizes :
         /\ user_config' = [file |-> "ok",
                            json |-> [user_config.json EXCEPT
                                        !.max_workers = IntVal(n)]]
         /\ config' = [config EXCEPT !.max_workers = IntVal(n)]
    /\ stdout' = {}
    /\ api_locations' = << >>
    /\ fut' = [f \in AllFiles |-> NoFuture]
    /\ queue' = << >>
    /\ yielded' = {}
    /\ pc' = "analyze"
    /\ UNCHANGED <<exit_code, artifacts, report, spec_state, dir_state, tree,
                   unreadable, argVars, api_paths, code_files, lineVars,
                   patVars, fileVars>>

NextRepeat ==
    \/ LoadConfig
    \/ CheckSpec
    \/ CheckDir
    \/ LoadSpec
    \/ ScanFiles
    \/ CheckFiles
    \/ AnalyzeStart
    \/ Submit
    \/ StartWorker
    \/ \E file_path \in AllFiles : FinishWorker(file_path)
    \/ \E file_path \in AllFiles : Merge(file_path)
    \/ AnalyzeReturn
    \/ Rescan

SpecRepeat == Init /\ [][NextRepeat]_vars

(***************************************************************************)
(* find_api_references, line by line, on the lines of any file             *)
(***************************************************************************)
\* the largest number of lines of a file
MaxLines == 3

\* the lines a file of a '//' language is made of
SlashLines ==
    {<<"f", "(", SQ, "/", "u", SQ, ")", "\n">>,
     <<"/", "/", " ", "/", "u", "\n">>,
     <<"x", "(", ")", ";", " ", "/", "/", " ", "/", "u">>,
     <<SQ, "/", "/", SQ, " ", "/", "u">>,
     <<SQ, "/", "/", SQ, " ", "/", "u", " ", "/", "/", " ", "/", "o", "/", "1">>,
     <<"/", "*", " ", "/", "u">>,
     <<"/", "u">>,
     <<"/", "u", " ", "*", "/">>,
     <<"a", " ", "/", "*", " ", "b", " ", "*", "/", " ", "/", "u">>,
     <<"/", "/", " ", "/", "*", " ", "*", "/", " ", "/", "u">>,
     <<"*", "/", " ", "/", "*">>,
     <<"/", "o", "/", "1">>,
     <<"/", "o", "/", "{", "i", "}">>,
     <<"/", "o", "X", "/">>,
     <<"/", "u", " ", "/", "u">>,
     <<"\n">>}

\* the lines a .py file is made of
PyLines ==
    {<<"h", "(", SQ, "/", "u", SQ, ")", "\n">>,
     <<"#", " ", "/", "u">>,
     <<"h", "(", SQ, "#", SQ, ")", " ", "#", " ", "/", "u">>,
     <<"x", "(", ")", " ", "#", " ", "/", "o", "/", "1">>,
     <<DQ, DQ, DQ, " ", "/", "u">>,
     <<"/", "u", " ", DQ, DQ, DQ>>,
     <<DQ, DQ, DQ, " ", "a", " ", DQ, DQ, DQ, " ", "/", "u">>,
     <<SQ, SQ, SQ, " ", "/", "o", "/", "1">>,
     <<"/", "o", "/", "{", "i", "}">>}

LinesOf(file_ext) == IF file_ext = PY_EXT THEN PyLines ELSE SlashLines

\* find_api_references is called for an endpoint and a file: lines 124-125
InitLines ==
    /\ MainInit
    /\ PatternIdle
    /\ FileIdle
    /\ ref_prev_end = FALSE
    /\ ref_ext \in {EXT_JS, EXT_PY}
    /\ ref_api \in {EP_U, EP_O}
    /\ ref_num = 0
    /\ ref_before = FALSE
    /\ ref_inside = FALSE
    /\ ref_raw = << >>
    /\ ref_out = << >>
    /\ ref_list = << >>

\* lines 127-147: the loop reads the next line of the file
ScanLine ==
    /\ ref_num < MaxLines
    /\ \E raw_line \in LinesOf(ref_ext) :
         LET step == LineStep(ref_api, raw_line, ref_ext, ref_num + 1,
                              ref_inside)
         IN  /\ ref_raw' = raw_line
             /\ ref_out' = step.out
             /\ ref_inside' = step.inside
             /\ ref_list' = ref_list \o step.refs
    /\ ref_num' = ref_num + 1
    /\ ref_before' = ref_inside
    /\ UNCHANGED <<mainVars, ref_ext, ref_api, ref_prev_end, patVars,
                   fileVars>>

\* the next call with the comment state the call before ended in
StartPassKeepingState ==
    /\ ref_ext' \in {EXT_JS, EXT_PY}
    /\ ref_api' \in {EP_U, EP_O}
    /\ ref_prev_end' = ref_inside
    /\ ref_num' = 0
    /\ ref_before' = FALSE
    /\ ref_inside' = ref_inside
    /\ ref_raw' = << >>
    /\ ref_out' = << >>
    /\ ref_list' = << >>
    /\ UNCHANGED <<mainVars, patVars, fileVars>>

\* line 149, then lines 124-125: the lines of the file are exhausted, the
\* call returns, and find_api_references is called again, for the next
\* endpoint or in the next file, with its own references and its own
\* in_multiline_comment
StartPass ==
    /\ ref_ext' \in {EXT_JS, EXT_PY}
    /\ ref_api' \in {EP_U, EP_O}
    /\ ref_prev_end' = ref_inside
    /\ ref_num' = 0
    /\ ref_before' = FALSE
    /\ ref_inside' = FALSE
    /\ ref_raw' = << >>
    /\ ref_out' = << >>
    /\ ref_list' = << >>
    /\ UNCHANGED <<mainVars, patVars, fileVars>>

NextLines == ScanLine \/ StartPass

SpecLines == InitLines /\ [][NextLines]_vars

(***************************************************************************)
(* analyze_single_file on any file                                         *)
(***************************************************************************)
\* a line whose trimmed text is longer than the preview
LongLine ==
    <<" ", " ", "/", "u", " ">> \o [i \in 1..PreviewLen |-> "x"] \o <<"\n">>

\* the lines readlines() gives for a file of a '//' language
SlashTexts ==
    {<<" ", " ", "/", "o", "/", "1", " ", "/", "u", "\n">>,
     <<"/", "*", " ", "/", "u", "\n">>,
     <<"/", "u", " ", "*", "/", "\n">>,
     <<"/", "/", " ", "/", "o", "/", "{", "i", "}", "\n">>,
     LongLine}

\* the lines readlines() gives for a .py file
PyTexts ==
    {<<" ", " ", "/", "o", "/", "1", " ", "/", "u", "\n">>,
     <<DQ, DQ, DQ, " ", "/", "u", "\n">>,
     <<"/", "o", "/", "1", " ", DQ, DQ, DQ, "\n">>,
     <<"#", " ", "/", "o", "/", "{", "i", "}", "\n">>,
     LongLine}

TextsOf(file_ext) == IF file_ext = PY_EXT THEN PyTexts ELSE SlashTexts

\* the endpoint lists a worker is given
EndpointLists == ApiChoices \cup {<<EP_U>>, <<EP_O>>}

\* a worker calls analyze_single_file for a candidate file under the scan
\* root: line 175
InitFile ==
    /\ MainInit
    /\ LinesIdle
    /\ PatternIdle
    /\ af_file \in {FILE_B, FILE_D}
    /\ \E n \in 0..MaxLines :
         af_lines \in [1..n -> TextsOf(Lower(Suffix(af_file)))]
    /\ af_paths \in EndpointLists
    /\ af_result = [done |-> FALSE, val |-> << >>]

\* lines 177-189: the file is read and scanned for every endpoint
AnalyzeFile ==
    /\ ~af_result.done
    /\ af_result' =
         [done |-> TRUE,
          val |-> ResultsFrom(af_paths, 1, af_lines, Lower(Suffix(af_file)),
                              RelPath(af_file, ROOT))]
    /\ UNCHANGED <<mainVars, lineVars, patVars, af_file, af_lines, af_paths>>

NextFile == AnalyzeFile

SpecFile == InitFile /\ [][NextFile]_vars

(***************************************************************************)
(* path_to_pattern on any endpoint path                                    *)
(***************************************************************************)
\* the largest length of an endpoint path
MaxPathLen == 8

\* the characters endpoint paths are made of
PathChars == {"/", "{", "}", "a"}

\* path_to_pattern is called for an endpoint, a key of "paths" in a
\* specification document, which starts with '/': line 61
InitPattern ==
    /\ MainInit
    /\ LinesIdle
    /\ FileIdle
    /\ \E n \in 0..(MaxPathLen - 1) :
         \E rest \in [1..n -> PathChars] : pp_path = <<"/">> \o rest
    /\ pp_pattern = [done |-> FALSE, val |-> << >>]

\* line 62: the value returned
ComputePattern ==
    /\ ~pp_pattern.done
    /\ pp_pattern' = [done |-> TRUE, val |-> path_to_pattern(pp_path)]
    /\ UNCHANGED <<mainVars, lineVars, pp_path, fileVars>>

NextPattern == ComputePattern

SpecPattern == InitPattern /\ [][NextPattern]_vars

(***************************************************************************)
(* Properties                                                              *)
(***************************************************************************)
\* analyze_api_usage_parallel has returned its map to main
Returned ==
    \/ pc \in {"report", "html", "json", "exit_check"}
    \/ pc = "exited" /\ report.shown

\* the number of occurrences of x in the sequence s
Occurrences(s, x) == Cardinality({i \in DOMAIN s : s[i] = x})

\* the files whose references are in the list
FilesOf(locations) == {locations[i].file : i \in DOMAIN locations}

\* C1: once analyze_api_usage_parallel has returned, the keys of the result
\* map are exactly the endpoint paths of the specification document.
C1_KeysAreEndpoints ==
    Returned => DOMAIN api_locations = Range(api_paths)

\* a scan with a failed file returned a map in which one endpoint has
\* references and another has none
C1_Witness ==
    /\ pc = "report"
    /\ unreadable # {}
    /\ \E p, q \in DOMAIN api_locations :
         api_locations[p] = << >> /\ api_locations[q] # << >>

\* C2: when the scan has returned, every (endpoint, reference) pair a worker
\* returned for a file is in the endpoint's list exactly once; and the map
\* changes only in steps of the coordinator: no step in which a future or
\* the work queue changes touches it, and during the collection it grows by
\* the batch of exactly one newly yielded finished future.
C2_NoLostUpdate ==
    /\ [](pc = "report" =>
            \A f \in Range(code_files) :
              \A i \in DOMAIN fut[f].outcome.results :
                LET pair == fut[f].outcome.results[i]
                IN  Occurrences(api_locations[pair.api], pair.loc) = 1)
    /\ [][api_locations' # api_locations =>
            /\ fut' = fut
            /\ queue' = queue
            /\ \/ pc = "analyze"
               \/ /\ pc = "collect"
                  /\ \E f \in Range(code_files) \ yielded :
                       /\ fut[f].state = "finished"
                       /\ yielded' = yielded \cup {f}]_vars

\* a scan returned with two references of one file under one endpoint and
\* two batches in one list
C2_Witness ==
    /\ pc = "report"
    /\ \E p \in DOMAIN api_locations :
         /\ Cardinality(FilesOf(api_locations[p])) >= 2
         /\ \E i, j \in DOMAIN api_locations[p] :
              i # j /\ api_locations[p][i].file = api_locations[p][j].file

\* C3: a second scan of the same endpoints and files, with any pool size
\* and any completion order, returns a map with the content of the first:
\* per endpoint the same multiset of references.
C3_SameContentEveryRun ==
    (pc = "report" /\ first_scan.done) =>
        Content(api_locations) = first_scan.content

\* a second scan with one worker returned references of several files
C3_Witness ==
    /\ pc = "report"
    /\ first_scan.done
    /\ config.max_workers.val = 1
    /\ \E p \in DOMAIN api_locations :
         Cardinality(FilesOf(api_locations[p])) >= 2

\* Python's order of the characters of the model's paths
CodePoint(c) ==
    CASE c = "." -> 46
      [] c = "/" -> 47
      [] c = "J" -> 74
      [] c = "S" -> 83
      [] c = "a" -> 97
      [] c = "b" -> 98
      [] c = "c" -> 99
      [] c = "d" -> 100
      [] c = "i" -> 105
      [] c = "j" -> 106
      [] c = "n" -> 110
      [] c = "p" -> 112
      [] c = "s" -> 115
      [] c = "y" -> 121
      [] OTHER   -> 0

\* s < t as Python compares str
StrLess(s, t) ==
    \E k \in 1 .. (Min(Len(s), Len(t)) + 1) :
        /\ \A i \in 1 .. (k - 1) : s[i] = t[i]
        /\ \/ k = Len(s) + 1 /\ k <= Len(t)
           \/ k <= Len(s) /\ k <= Len(t)
              /\ CodePoint(s[k]) < CodePoint(t[k])

\* (file, line) of a is not after that of b
LocLeq(a, b) ==
    \/ StrLess(a.file, b.file)
    \/ a.file = b.file /\ a.line <= b.line

\* C4: in the returned map every endpoint's list is ordered by file path,
\* then line number.
C4_SortedByFileThenLine ==
    Returned =>
        \A p \in DOMAIN api_locations :
          \A i, j \in DOMAIN api_locations[p] :
            i < j => LocLeq(api_locations[p][i], api_locations[p][j])

\* C5: in the returned map, two references of one endpoint from one file
\* stand in strictly ascending line order.
C5_AscendingWithinFile ==
    Returned =>
        \A p \in DOMAIN api_locations :
          \A i, j \in DOMAIN api_locations[p] :
            (i < j /\ api_locations[p][i].file = api_locations[p][j].file)
                => api_locations[p][i].line < api_locations[p][j].line

\* an endpoint's list holds two references of one file after a reference of
\* another file
C5_Witness ==
    /\ pc = "report"
    /\ \E p \in DOMAIN api_locations :
         \E i, j, k \in DOMAIN api_locations[p] :
            /\ i < j /\ j < k
            /\ api_locations[p][i].file # api_locations[p][j].file
            /\ api_locations[p][j].file = api_locations[p][k].file

\* the map a sequential scan of the files of the list builds, every file
\* being readable
RECURSIVE ScanInOrder(_, _, _)
ScanInOrder(paths, files, k) ==
    IF k = 0 THEN NewLocations(paths)
    ELSE MergeResults(ScanInOrder(paths, files, k - 1),
                      analyze_single_file(files[k], paths, ROOT, TRUE).results)

\* the list without the files of the set
Without(files, gone) == SelectSeq(files, LAMBDA f : f \notin gone)

\* C6: a scan in which files failed to open or decode returns; no reference
\* of the returned map is from a failed file; and the map has the keys and,
\* per endpoint, the references of a scan of the file list without the
\* failed files.
C6_FailedFileIsSkipped ==
    pc = "report" =>
        /\ \A p \in DOMAIN api_locations :
             \A i \in DOMAIN api_locations[p] :
               \A f \in unreadable :
                 api_locations[p][i].file # RelPath(f, ROOT)
        /\ Content(api_locations) =
             Content(ScanInOrder(api_paths, Without(code_files, unreadable),
                                 Len(Without(code_files, unreadable))))

\* a scan with a failed file and a readable file with references returned
C6_Witness ==
    /\ pc = "report"
    /\ unreadable # {}
    /\ \E p \in DOMAIN api_locations : api_locations[p] # << >>

\* C7: for each file that failed to open or decode, the output of the
\* returned scan holds a warning naming the file.
C7_FailedFileIsWarned ==
    Returned =>
        \A f \in unreadable : FileMsg("warn_file", f) \in stdout

\* C8: a run that found no candidate file exits with status 0 having
\* reported every endpoint of the document with no reference.
C8_ZeroFileRunIsReported ==
    (pc = "exited" /\ Msg("warn_no_files") \in stdout) =>
        /\ exit_code = 0
        /\ report.shown
        /\ report.rows = [i \in DOMAIN api_paths |->
                            [api |-> api_paths[i], count |-> 0]]

\* the run met a fatal input: no specification document, one that does not
\* parse, no scan root, or one that is no directory
FatalInput ==
    \/ spec_state \in {"missing", "unparsable"}
    \/ dir_state \in {"missing", "notdir"}

\* C9: a run that met a fatal input has stopped with status 1 before the
\* scan of the tree was begun, no worker was given a file, and no report
\* file is written.
C9_FatalStopsBeforeScan ==
    FatalInput =>
        /\ pc = "exited"
        /\ exit_code = 1
        /\ Msg("scanning") \notin stdout
        /\ Submitted = {}
        /\ ~ report.shown
        /\ artifacts = {}

\* a run stopped on a specification document that does not parse, after
\* finding the scan root
C9_Witness ==
    /\ spec_state = "unparsable"
    /\ dir_state = "ok"
    /\ pc = "exited"

\* the value of the knob in ripple.json is absent or invalid
KnobUnusable(key) ==
    \/ user_config.file \in {"absent", "broken"}
    \/ user_config.json[key].kind \in {"absent", "wrong"}
    \/ key = "max_workers"
       /\ user_config.json[key].kind = "int"
       /\ user_config.json[key].val <= 0

\* C10: once the configuration is loaded, a knob whose value in ripple.json
\* is absent or invalid has its default value, and the run does not die of
\* an exception.
C10_DefaultOnInvalidKnob ==
    pc # "load_config" =>
        \A key \in KNOBS :
            KnobUnusable(key) =>
                config[key] = DEFAULT_CONFIG[key] /\ pc # "crashed"

\* s is a prefix of t
IsPrefix(s, t) == Len(s) <= Len(t) /\ SubSeq(t, 1, Len(s)) = s

\* C17: during a scan no step clears or shortens an endpoint's list: every
\* key stays, and its list after the step is its list before the step with
\* zero or more references appended.
C17_ListsOnlyGrow ==
    [][(pc = "submit" \/ pc = "collect") =>
          \A p \in DOMAIN api_locations :
              (p \in DOMAIN api_locations'
               /\ IsPrefix(api_locations[p], api_locations'[p]))]_vars

\* the collection is under way with one batch merged into a list and a
\* future not yet yielded
C17_Witness ==
    /\ pc = "collect"
    /\ yielded # {}
    /\ yielded # Range(code_files)
    /\ \E p \in DOMAIN api_locations : api_locations[p] # << >>

\* the run got past the loading of the configuration, the document and the
\* check of the scan root, and has ended without dying of an exception
Completed ==
    /\ pc = "exited"
    /\ spec_state = "ok"
    /\ dir_state = "ok"

\* an endpoint of the document has no reference in the scanned tree
SomeUnreferenced ==
    \E p \in Range(api_paths) :
        p \notin DOMAIN api_locations \/ api_locations[p] = << >>

\* C18: a completed run with --fail-on-unused and an endpoint without
\* reference exits with a status other than 0; every other completed run
\* exits with 0.
C18_ExitCode ==
    Completed =>
        IF fail_on_unused = "yes" /\ SomeUnreferenced
        THEN exit_code # 0
        ELSE exit_code = 0

\* the extension of the file, compared without case, is in the allow-list
ExtensionAllowed(path) ==
    \E ext \in Range(config.extensions.val) : Lower(ext) = Lower(Suffix(path))

\* a segment of the path is an entry of the skip-list
SegmentSkipped(path) ==
    \E k \in DOMAIN Parts(path), n \in DOMAIN config.skip_dirs.val :
        Parts(path)[k] = config.skip_dirs.val[n]

\* scan_code_files has just returned its list
Scanned ==
    /\ pc = "check_files"
    /\ config.skip_dirs.kind = "list"

\* C19: the list scan_code_files returned holds a file of the tree if and
\* only if its extension is in the allow-list, case ignored, and no segment
\* of its path is in the skip-list; and holds it once.
C19_CandidateFiles ==
    Scanned =>
        /\ \A f \in tree :
             f \in Range(code_files) <=>
                (ExtensionAllowed(f) /\ ~ SegmentSkipped(f))
        /\ Range(code_files) \subseteq tree
        /\ Len(code_files) = Cardinality(Range(code_files))

\* a scan listed the file with the upper-case suffix and left out a file of
\* a skipped directory and a file of another extension
C19_Witness ==
    /\ Scanned
    /\ FILE_C \in Range(code_files)
    /\ \E f, g \in tree \ Range(code_files) :
         SegmentSkipped(f) /\ ~ ExtensionAllowed(g)

(***************************************************************************)
(* Properties of the line scanner                                          *)
(***************************************************************************)
\* the loop has read a line
LineRead == ref_num >= 1

\* the line just read was appended to the references
YieldedRef ==
    /\ ref_list # << >>
    /\ ref_list[Len(ref_list)].line = ref_num

HasPlaceholder(api_path) == Contains(<<"{">>, api_path)

\* the endpoint, by either rule, occurs in the text
OccursIn(api_path, text) ==
    \/ Contains(api_path, text)
    \/ HasPlaceholder(api_path) /\ Contains(path_to_pattern(api_path), text)

\* the text of the line before its first line comment marker
MarkerPos == Find(ref_raw, get_comment_char(ref_ext), 0)
BeforeMarker == Slice(ref_raw, 0, MarkerPos)

\* the first line comment marker of the line is outside quotes
MarkerIsComment ==
    /\ MarkerPos # -1
    /\ Count(BeforeMarker, SQ) % 2 = 0
    /\ Count(BeforeMarker, DQ) % 2 = 0

\* C11: in the Normal state, a line comment marker preceded by an even number
\* of single quotes and of double quotes hides the rest of the line: the line
\* yields a Reference only if the endpoint occurs before the marker, and a
\* line that is nothing but a line comment gives empty output and no
\* Reference
C11_LineCommentHidden ==
    (LineRead /\ ~ref_before /\ MarkerIsComment) =>
        /\ YieldedRef => OccursIn(ref_api, BeforeMarker)
        /\ Strip(BeforeMarker) = << >> => (ref_out = << >> /\ ~YieldedRef)

\* C12: a line read inside a block comment gives empty output and no
\* Reference, whatever stands on it, and the line that opens a block yields a
\* Reference only for an endpoint standing before the start marker
BeforeStart ==
    IF ref_ext = PY_EXT THEN << >>
    ELSE Slice(ref_raw, 0, Find(ref_raw, BLOCK_START, 0))

C12_BlockCommentHidden ==
    LineRead =>
        /\ ref_before => (ref_out = << >> /\ ~YieldedRef)
        /\ (~ref_before /\ ref_inside) =>
              (YieldedRef => OccursIn(ref_api, BeforeStart))

\* a block is closed on the third line by a line that names the endpoint,
\* and nothing was counted
C12_Witness ==
    /\ ref_num = MaxLines
    /\ ref_before
    /\ ~ref_inside
    /\ Contains(ref_api, ref_raw)
    /\ ref_list = << >>

\* C13: for an endpoint without placeholder, a line yields a Reference exactly
\* when the processed line contains the endpoint's text
C13_LiteralRule ==
    (LineRead /\ ~HasPlaceholder(ref_api)) =>
        (YieldedRef <=> Contains(ref_api, ref_out))

\* the endpoint stands on the raw line and not on the processed one
C13_Witness ==
    /\ LineRead
    /\ ~HasPlaceholder(ref_api)
    /\ Contains(ref_api, ref_raw)
    /\ ref_out # << >>
    /\ ~Contains(ref_api, ref_out)
    /\ ~YieldedRef

\* C14: for an endpoint with a placeholder, a line yields a Reference exactly
\* when the processed line contains the endpoint's text or its pattern; for
\* an endpoint without one, only when it contains the endpoint's text
C14_PatternRule ==
    LineRead =>
        IF HasPlaceholder(ref_api)
        THEN YieldedRef <=> \/ Contains(ref_api, ref_out)
                            \/ Contains(path_to_pattern(ref_api), ref_out)
        ELSE YieldedRef => Contains(ref_api, ref_out)

\* a line matched by the pattern alone
C14_Witness ==
    /\ LineRead
    /\ HasPlaceholder(ref_api)
    /\ YieldedRef
    /\ ~Contains(ref_api, ref_out)

\* C15: a line gives at most one Reference for an endpoint
C15_OnePerLine ==
    /\ Len(ref_list) <= ref_num
    /\ \A i, j \in DOMAIN ref_list :
           ref_list[i].line = ref_list[j].line => i = j

\* a line on which both rules match, or the endpoint stands twice
C15_Witness ==
    /\ YieldedRef
    /\ \/ /\ HasPlaceholder(ref_api)
          /\ Contains(ref_api, ref_out)
          /\ Contains(path_to_pattern(ref_api), ref_out)
       \/ \E k \in 0..Len(ref_out) :
              /\ Find(ref_out, ref_api, 0) # -1
              /\ Find(ref_out, ref_api, 0) < k
              /\ Find(ref_out, ref_api, k) # -1

\* the block markers of the line just read, found in the raw line
TrimmedRaw == Strip(ref_raw)
PyMarker == IF StartsWith(TrimmedRaw, TRIPLE_DQ) THEN TRIPLE_DQ ELSE TRIPLE_SQ
HasStartMarker ==
    IF ref_ext = PY_EXT
    THEN StartsWith(TrimmedRaw, TRIPLE_DQ) \/ StartsWith(TrimmedRaw, TRIPLE_SQ)
    ELSE Contains(BLOCK_START, ref_raw)
StartPos == IF ref_ext = PY_EXT THEN 0 ELSE Find(ref_raw, BLOCK_START, 0)
EndPos ==
    IF ref_ext = PY_EXT
    THEN Find(TrimmedRaw, PyMarker, 3)
    ELSE Find(ref_raw, BLOCK_END, StartPos + 2)
AfterEnd ==
    IF ref_ext = PY_EXT
    THEN SliceFrom(TrimmedRaw, EndPos + 3)
    ELSE SliceFrom(ref_raw, EndPos + 2)
HasEndMarker ==
    IF ref_ext = PY_EXT
    THEN Contains(TRIPLE_DQ, ref_raw) \/ Contains(TRIPLE_SQ, ref_raw)
    ELSE Contains(BLOCK_END, ref_raw)

\* C20: in the Normal state a line with a start marker and its end marker
\* gives the trimmed text before the start joined to the text after the end
\* and stays Normal, a line with a start marker and no end marker after it
\* gives the trimmed text before the start and enters the block, and a line
\* without start marker stays Normal; inside a block the state returns to
\* Normal exactly on a line that contains an end marker
C20_BlockStateMachine ==
    LineRead =>
        IF ref_before
        THEN ref_inside <=> ~HasEndMarker
        ELSE IF HasStartMarker
             THEN IF EndPos # -1
                  THEN /\ ~ref_inside
                       /\ ref_out = Strip(BeforeStart \o AfterEnd)
                  ELSE /\ ref_inside
                       /\ ref_out = Strip(BeforeStart)
             ELSE ~ref_inside

\* a block opened and closed on one line, with text on both sides
C20_Witness ==
    /\ LineRead
    /\ ~ref_before
    /\ HasStartMarker
    /\ EndPos # -1
    /\ Strip(BeforeStart) # << >>
    /\ Strip(AfterEnd) # << >>
    /\ ref_out # << >>

(***************************************************************************)
(* Properties of path_to_pattern                                           *)
(***************************************************************************)
\* the parameter segments of s: <<i, j>> with '/' at i, '{' at i + 1, '}' at
\* j, and between them a non-empty name without '}'
Segments(s) ==
    {ij \in (DOMAIN s) \X (DOMAIN s) :
        /\ ij[2] >= ij[1] + 3
        /\ s[ij[1]] = "/"
        /\ s[ij[1] + 1] = "{"
        /\ s[ij[2]] = "}"
        /\ \A k \in (ij[1] + 2)..(ij[2] - 1) : s[k] # "}"}

\* the positions of s that a collapsed segment takes away: all of the segment
\* but its '/'
Collapsed(s) ==
    {k \in DOMAIN s : \E ij \in Segments(s) : ij[1] < k /\ k <= ij[2]}

\* the characters of s at the positions in keep, in order
RECURSIVE Pick(_, _, _)
Pick(s, keep, k) ==
    IF k > Len(s) THEN << >>
    ELSE (IF k \in keep THEN <<s[k]>> ELSE << >>) \o Pick(s, keep, k + 1)

Kept(s) == Pick(s, (DOMAIN s) \ Collapsed(s), 1)

\* C16 as stated: every parameter segment is replaced by '/', every other
\* character is kept in order, a path without parameter segment is returned
\* unchanged, and the pattern holds no parameter segment
C16_NoSegmentRemains ==
    pp_pattern.done =>
        /\ pp_pattern.val = Kept(pp_path)
        /\ Segments(pp_path) = {} => pp_pattern.val = pp_path
        /\ Segments(pp_pattern.val) = {}

\* C16, amended: every parameter segment is replaced by '/', every other
\* character is kept in order, and a path without parameter segment is
\* returned unchanged; the pattern holds a parameter segment only where a
\* parameter segment of the path is followed directly by '{'
C16_SegmentsCollapsed ==
    pp_pattern.done =>
        /\ pp_pattern.val = Kept(pp_path)
        /\ Segments(pp_path) = {} => pp_pattern.val = pp_path
        /\ Segments(pp_pattern.val) # {} =>
              \E ij \in Segments(pp_path) :
                  /\ ij[2] < Len(pp_path)
                  /\ pp_path[ij[2] + 1] = "{"

\* a path with two parameter segments and text between them
C16_Witness ==
    /\ pp_pattern.done
    /\ \E ij, kl \in Segments(pp_path) : ij[2] < kl[1]
    /\ Len(pp_pattern.val) < Len(pp_path)
    /\ Segments(pp_pattern.val) = {}

(***************************************************************************)
(* Properties of the trailing comment rule                                 *)
(***************************************************************************)
\* the line just read went through remove_inline_comment: it was read in the
\* Normal state and opens no block
TrailingRuleApplied == LineRead /\ ~ref_before /\ ~HasStartMarker

\* C21: only the first line comment marker of the line counts; with an even
\* number of single quotes and of double quotes before it the line is cut at
\* the marker and trimmed on the right, otherwise the whole line is emitted
\* unchanged; a line without marker is emitted unchanged
C21_QuoteBalance ==
    TrailingRuleApplied =>
        ref_out = IF MarkerIsComment THEN RStrip(BeforeMarker) ELSE ref_raw

\* the first marker stands inside quotes, a second one follows it, and the
\* line comes out whole
C21_Witness ==
    /\ TrailingRuleApplied
    /\ MarkerPos # -1
    /\ ~MarkerIsComment
    /\ Find(ref_raw, get_comment_char(ref_ext), MarkerPos + 1) # -1
    /\ ref_out = ref_raw

(***************************************************************************)
(* Properties of the dispatch                                              *)
(***************************************************************************)
\* a future only moves forward: submitted, taken by a thread, finished
FutureSteps ==
    {<<"none", "pending">>, <<"pending", "running">>,
     <<"running", "finished">>}

\* every candidate file was dispatched, has completed and was merged, and
\* nothing else was dispatched
AllDispatchedAndMerged ==
    \A f \in AllFiles :
        IF f \in Range(code_files)
        THEN fut[f].state = "finished" /\ f \in yielded
        ELSE fut[f] = NoFuture /\ f \notin yielded

\* C22: in analyze_api_usage_parallel every candidate file is dispatched
\* exactly once and its batch is merged exactly once, the call returns only
\* after every dispatched file has completed, and the call always returns
C22_EveryFileOnceAndReturns ==
    /\ [](pc = "report" => AllDispatchedAndMerged)
    /\ [][/\ \A f \in AllFiles :
               fut'[f].state # fut[f].state =>
                   /\ f \in Range(code_files)
                   /\ <<fut[f].state, fut'[f].state>> \in FutureSteps
          /\ yielded' # yielded =>
               \E f \in Range(code_files) \ yielded :
                   /\ fut[f].state = "finished"
                   /\ yielded' = yielded \cup {f}
          /\ (pc = "collect" /\ pc' = "report") =>
               AllDispatchedAndMerged]_vars
    /\ (pc = "analyze" ~> pc = "report")

(***************************************************************************)
(* Properties of the comment state across calls                            *)
(***************************************************************************)
\* C24: the comment state belongs to one call of find_api_references: the
\* first line of every file, and of every endpoint's pass over it, is read
\* in the Normal state and filtered as in the Normal state, whatever state
\* the call before ended in
C24_StatePerFile ==
    ref_num = 1 =>
        /\ ~ref_before
        /\ ref_out = process_code_line(ref_raw, ref_ext, FALSE).out
        /\ ref_inside = process_code_line(ref_raw, ref_ext, FALSE).inside

\* the call before ended inside a block comment, and the first line of this
\* call is counted
C24_Witness ==
    /\ ref_num = 1
    /\ ref_prev_end
    /\ YieldedRef

(***************************************************************************)
(* Properties of analyze_single_file                                       *)
(***************************************************************************)
\* the pairs the endpoints of the list, from the k-th on, give for one
\* processed line
RECURSIVE PairsOfLine(_, _, _, _, _, _)
PairsOfLine(paths, k, processed_line, raw_line, line_num, rel_path) ==
    IF k > Len(paths) THEN << >>
    ELSE (IF processed_line # << >> /\ OccursIn(paths[k], processed_line)
          THEN <<[api |-> paths[k],
                  loc |-> [file |-> rel_path,
                           line |-> line_num,
                           code |-> Slice(Strip(raw_line), 0, PreviewLen)]]>>
          ELSE << >>)
         \o PairsOfLine(paths, k + 1, processed_line, raw_line, line_num,
                        rel_path)

\* the single pass: each line is filtered once, and every endpoint is
\* matched against the processed line
RECURSIVE SinglePass(_, _, _, _, _, _)
SinglePass(paths, lines, file_ext, rel_path, line_num, inside) ==
    IF line_num > Len(lines) THEN << >>
    ELSE LET p == process_code_line(lines[line_num], file_ext, inside)
         IN  PairsOfLine(paths, 1, p.out, lines[line_num], line_num,
                         rel_path)
             \o SinglePass(paths, lines, file_ext, rel_path, line_num + 1,
                           p.inside)

\* the pairs of the sequence that are of the endpoint, in their order
PairsOf(api_path, pairs) == SelectSeq(pairs, LAMBDA r : r.api = api_path)

\* the file's extension and its path under the scan root
FileExt == Lower(Suffix(af_file))
FileRel == RelPath(af_file, ROOT)

\* C23: the pairs analyze_single_file returns are those of the single pass,
\* each as many times, and for each endpoint in the same order; and the
\* pairs of an endpoint are those the call returns for that endpoint alone
C23_SameAsSinglePass ==
    af_result.done =>
        LET single == SinglePass(af_paths, af_lines, FileExt, FileRel, 1, FALSE)
        IN  /\ BagOfSeq(af_result.val) = BagOfSeq(single)
            /\ \A p \in Range(af_paths) :
                 /\ PairsOf(p, af_result.val) = PairsOf(p, single)
                 /\ PairsOf(p, af_result.val) =
                      ResultsFrom(<<p>>, 1, af_lines, FileExt, FileRel)

\* two endpoints, both found, in a file that ends inside a block comment, and
\* the pairs come endpoint by endpoint, not line by line
C23_Witness ==
    /\ af_result.done
    /\ Len(af_paths) = 2
    /\ \A p \in Range(af_paths) : Len(PairsOf(p, af_result.val)) >= 1
    /\ EndState(af_lines, FileExt, 1, FALSE)
    /\ af_result.val # SinglePass(af_paths, af_lines, FileExt, FileRel, 1, FALSE)

\* C25: every Reference carries the file's path relative to the scan root,
\* the 1-based number of its line in the file, and the raw line trimmed and
\* cut to at most 100 characters
C25_ReferenceFields ==
    af_result.done =>
        \A k \in DOMAIN af_result.val :
            LET loc == af_result.val[k].loc
            IN  /\ ROOT \o <<SEP>> \o loc.file = af_file
                /\ loc.line \in 1..Len(af_lines)
                /\ IsPrefix(loc.code, Strip(af_lines[loc.line]))
                /\ Len(loc.code) = Min(100, Len(Strip(af_lines[loc.line])))

\* a Reference of a file in a directory under the root, on a line after the
\* first, whose trimmed text is longer than 100 characters and differs from
\* the raw line
C25_Witness ==
    /\ af_result.done
    /\ af_file = FILE_D
    /\ \E k \in DOMAIN af_result.val :
         LET loc == af_result.val[k].loc
         IN  /\ loc.line >= 2
             /\ Len(loc.code) = 100
             /\ Len(Strip(af_lines[loc.line])) > 100
             /\ Strip(af_lines[loc.line]) # af_lines[loc.line]

====
